---------------------------- MODULE Spec2Model ----------------------------
(***************************************************************************)
(* A model of minimize-resolved-pr-reviews: the grouping of review threads *)
(* by review (groupThreadsByReview), the assembly of the review list       *)
(* (buildReviewList), the eligibility rule (findReviewsToMinimize), the    *)
(* paginated fetch (fetchPullRequestData) and the orchestrator (run).      *)
(*                                                                         *)
(* Values.  A nullable field `x | null` is a sequence of length at most 1: *)
(* <<>> is null, <<v>> is v.  Identifiers (opaque strings in the code) are *)
(* small naturals.  A createdAt is an ISO-8601 string; the code only ever  *)
(* reads it through `new Date(s).getTime()`, modelled by DateGetTime.      *)
(***************************************************************************)
EXTENDS Integers, Sequences, FiniteSets, TLC

\* ------------------------------------------------------------------ bounds

\* Longest review collection handed to findReviewsToMinimize.
MaxReviews == 3
\* Most threads attached to one review of such a collection.
MaxThreadsPerReview == 2
\* Most threads handed to groupThreadsByReview and buildReviewList.
MaxThreads == 2
\* Most records (threads plus bare reviews) handed to buildReviewList.
MaxRecords == 3
\* Most reviews and most threads of the pull request in a run.
MaxRemoteReviews == 3
MaxRemoteThreads == 1
\* Nodes per page (the queries ask for first: 100).
PageSize == 2
\* Runs of the action on the pull request.
MaxRuns == 2
\* Most pages a scripted client serves for one resource.
MaxPages == 3
\* Longest review collection of several authors handed to
\* findReviewsToMinimize to observe the order of its output.
MaxOrderedReviews == 4

\* ------------------------------------------------------------------ values

Logins == {"alice", "bob"}

\* createdAt strings, as GitHub's DateTime scalar prints them.
CreatedAts == {"2025-01-01T00:00:00Z", "2025-01-02T00:00:00Z"}

\* new Date(s).getTime(), in hours since 2025-01-01T00:00:00Z.
DateGetTime(s) ==
  CASE s = "2025-01-01T00:00:00Z" -> 0
    [] s = "2025-01-02T00:00:00Z" -> 24

Nullable(S) == {<<>>} \cup {<<x>> : x \in S}

Range(s) == {s[i] : i \in DOMAIN s}

SeqsUpTo(S, n) == UNION {[1..k -> S] : k \in 0..n}

\* ReviewInfo.threads
ThreadInfos(n) ==
  {[i \in DOMAIN flags |-> [threadId |-> i, isResolved |-> flags[i]]] :
     flags \in SeqsUpTo(BOOLEAN, n)}

\* ------------------------------------------- Array.prototype.sort (stable)

\* The comparator of findReviewsToMinimize: negative when a sorts before b.
CompareCreatedAtDesc(a, b) == DateGetTime(b.createdAt) - DateGetTime(a.createdAt)

\* An insertion that puts x in front of the elements it compares equal to:
\* a sort that is not stable.
RECURSIVE InsertBeforeEqual(_, _)
InsertBeforeEqual(sorted, x) ==
  IF sorted = <<>> THEN <<x>>
  ELSE IF CompareCreatedAtDesc(Head(sorted), x) < 0
       THEN <<Head(sorted)>> \o InsertBeforeEqual(Tail(sorted), x)
       ELSE <<x>> \o sorted

\* x goes behind every element that does not sort after it.
RECURSIVE Insert(_, _)
Insert(sorted, x) ==
  IF sorted = <<>> THEN <<x>>
  ELSE IF CompareCreatedAtDesc(Head(sorted), x) <= 0
       THEN <<Head(sorted)>> \o Insert(Tail(sorted), x)
       ELSE <<x>> \o sorted

RECURSIVE SortByCreatedAtDesc(_)
SortByCreatedAtDesc(s) ==
  IF s = <<>> THEN <<>>
  ELSE Insert(SortByCreatedAtDesc(SubSeq(s, 1, Len(s) - 1)), s[Len(s)])

\* ---------------------------------------------------- findReviewsToMinimize

ToLowerCase(x) == IF x = "Alice" THEN "alice" ELSE x

\* A filter that ignores case.
IncludesIgnoreCase(list, x) ==
  \E i \in DOMAIN list : ToLowerCase(list[i]) = ToLowerCase(x)

\* allowedUsers.includes(author)
Includes(list, x) == \E i \in DOMAIN list : list[i] = x

\* The keys in the order in which each author appears last.
RECURSIVE AuthorKeysLastSeen(_)
AuthorKeysLastSeen(reviews) ==
  IF reviews = <<>> THEN <<>>
  ELSE LET rest == AuthorKeysLastSeen(Tail(reviews))
           a == Head(reviews).author
       IN IF \E i \in DOMAIN rest : rest[i] = a THEN rest ELSE <<a>> \o rest

\* The author of every review, repeated: the loop over the reviews in place
\* of the loop over byAuthor.
AuthorKeysRepeated(reviews) == [i \in DOMAIN reviews |-> reviews[i].author]

\* The keys of byAuthor, in insertion order.
RECURSIVE AuthorKeys(_)
AuthorKeys(reviews) ==
  IF reviews = <<>> THEN <<>>
  ELSE LET rest == AuthorKeys(SubSeq(reviews, 1, Len(reviews) - 1))
           a == reviews[Len(reviews)].author
       IN IF \E i \in DOMAIN rest : rest[i] = a THEN rest ELSE Append(rest, a)

\* byAuthor.get(author)
ByAuthor(reviews, author) ==
  LET Mine(r) == r.author = author IN SelectSeq(reviews, Mine)

\* threads.some in place of threads.every.
SomeThreadResolved(review) ==
  \E i \in DOMAIN review.threads : review.threads[i].isResolved

\* review.threads.every((t) => t.isResolved)
AllThreadsResolved(review) ==
  \A i \in DOMAIN review.threads : review.threads[i].isResolved

\* The inner loop without the slice: the most recent review is checked too.
IdsOfOlderNoSlice(sorted) ==
  LET Picked(r) == ~r.isMinimized /\ AllThreadsResolved(r)
      picked == SelectSeq(sorted, Picked)
  IN [i \in DOMAIN picked |-> picked[i].reviewId]

\* The inner loop without the isMinimized test.
IdsOfOlderIgnoreMinimized(sorted) ==
  LET rest == Tail(sorted)
      picked == SelectSeq(rest, AllThreadsResolved)
  IN [i \in DOMAIN picked |-> picked[i].reviewId]

\* The inner loop over sorted.slice(1, 2): only the second most recent
\* review is looked at.
IdsOfOlderSecondOnly(sorted) ==
  LET rest == IF Len(sorted) >= 2 THEN <<sorted[2]>> ELSE <<>>
      Picked(r) == ~r.isMinimized /\ AllThreadsResolved(r)
      picked == SelectSeq(rest, Picked)
  IN [i \in DOMAIN picked |-> picked[i].reviewId]

\* The inner loop over sorted.slice(1).
IdsOfOlder(sorted) ==
  LET rest == Tail(sorted)
      Picked(r) == ~r.isMinimized /\ AllThreadsResolved(r)
      picked == SelectSeq(rest, Picked)
  IN [i \in DOMAIN picked |-> picked[i].reviewId]

\* One iteration of the loop over byAuthor.
IdsOfAuthor(reviews, allowedUsers, author) ==
  IF Len(allowedUsers) > 0 /\ ~Includes(allowedUsers, author)
  THEN <<>>
  ELSE IdsOfOlder(SortByCreatedAtDesc(ByAuthor(reviews, author)))

RECURSIVE IdsOfAuthors(_, _, _)
IdsOfAuthors(reviews, allowedUsers, keys) ==
  IF keys = <<>> THEN <<>>
  ELSE IdsOfAuthor(reviews, allowedUsers, Head(keys))
         \o IdsOfAuthors(reviews, allowedUsers, Tail(keys))

findReviewsToMinimize(reviews, allowedUsers) ==
  IdsOfAuthors(reviews, allowedUsers, AuthorKeys(reviews))

\* ------------------------------------------------ Map<string, ReviewInfo>

\* A Map keyed by reviewId is the sequence of its values in insertion order.
MapHas(reviewMap, id) == \E i \in DOMAIN reviewMap : reviewMap[i].reviewId = id

MapIndex(reviewMap, id) ==
  CHOOSE i \in DOMAIN reviewMap : reviewMap[i].reviewId = id

MapGet(reviewMap, id) == reviewMap[MapIndex(reviewMap, id)]

\* A set that puts a new key in front of the others.
MapSetInFront(reviewMap, id, value) ==
  IF MapHas(reviewMap, id)
  THEN [reviewMap EXCEPT ![MapIndex(reviewMap, id)] = value]
  ELSE <<value>> \o reviewMap

\* Map.prototype.set: an existing key keeps its place.
MapSet(reviewMap, id, value) ==
  IF MapHas(reviewMap, id)
  THEN [reviewMap EXCEPT ![MapIndex(reviewMap, id)] = value]
  ELSE Append(reviewMap, value)

\* ----------------------------------------------------- groupThreadsByReview

\* thread.comments.nodes[0], undefined (<<>>) when the array is empty.
FirstComment(thread) ==
  IF Len(thread.comments) > 0 THEN <<thread.comments[1]>> ELSE <<>>

\* !firstComment?.author || !firstComment.pullRequestReview
Orphaned(thread) ==
  LET firstComment == FirstComment(thread)
  IN \/ firstComment = <<>>
     \/ firstComment[1].author = <<>>
     \/ firstComment[1].pullRequestReview = <<>>

\* The loop body that does not read review.isMinimized.
GroupThreadNotMinimized(reviewMap, thread) ==
  LET firstComment == FirstComment(thread)[1]
      review == firstComment.pullRequestReview[1]
      created ==
        IF ~MapHas(reviewMap, review.id)
        THEN MapSet(reviewMap, review.id,
                    [reviewId |-> review.id,
                     author |-> firstComment.author[1],
                     createdAt |-> review.createdAt,
                     isMinimized |-> FALSE,
                     threads |-> <<>>])
        ELSE reviewMap
      i == MapIndex(created, review.id)
  IN [created EXCEPT ![i].threads =
        Append(@, [threadId |-> thread.id, isResolved |-> thread.isResolved])]

\* The loop body with the push in an else branch: the thread that creates the
\* entry is not attached to it.
GroupThreadPushInElse(reviewMap, thread) ==
  LET firstComment == FirstComment(thread)[1]
      review == firstComment.pullRequestReview[1]
  IN IF ~MapHas(reviewMap, review.id)
     THEN MapSet(reviewMap, review.id,
                 [reviewId |-> review.id,
                  author |-> firstComment.author[1],
                  createdAt |-> review.createdAt,
                  isMinimized |-> review.isMinimized,
                  threads |-> <<>>])
     ELSE [reviewMap EXCEPT ![MapIndex(reviewMap, review.id)].threads =
             Append(@, [threadId |-> thread.id, isResolved |-> thread.isResolved])]

\* The loop body that sets the entry anew for every thread: the fields of the
\* last thread replace those of the first.
GroupThreadLastWins(reviewMap, thread) ==
  LET firstComment == FirstComment(thread)[1]
      review == firstComment.pullRequestReview[1]
      before == IF MapHas(reviewMap, review.id)
                THEN MapGet(reviewMap, review.id).threads ELSE <<>>
  IN MapSet(reviewMap, review.id,
            [reviewId |-> review.id,
             author |-> firstComment.author[1],
             createdAt |-> review.createdAt,
             isMinimized |-> review.isMinimized,
             threads |-> Append(before, [threadId |-> thread.id,
                                         isResolved |-> thread.isResolved])])

\* The loop body that assigns the thread list in place of the push: a review
\* keeps only the last of its threads.
GroupThreadAssign(reviewMap, thread) ==
  LET firstComment == FirstComment(thread)[1]
      review == firstComment.pullRequestReview[1]
      created ==
        IF ~MapHas(reviewMap, review.id)
        THEN MapSet(reviewMap, review.id,
                    [reviewId |-> review.id,
                     author |-> firstComment.author[1],
                     createdAt |-> review.createdAt,
                     isMinimized |-> review.isMinimized,
                     threads |-> <<>>])
        ELSE reviewMap
      i == MapIndex(created, review.id)
  IN [created EXCEPT ![i].threads =
        <<[threadId |-> thread.id, isResolved |-> thread.isResolved]>>]

\* The body of the loop for a thread that is not skipped.
GroupThread(reviewMap, thread) ==
  LET firstComment == FirstComment(thread)[1]
      review == firstComment.pullRequestReview[1]
      created ==
        IF ~MapHas(reviewMap, review.id)
        THEN MapSet(reviewMap, review.id,
                    [reviewId |-> review.id,
                     author |-> firstComment.author[1],
                     createdAt |-> review.createdAt,
                     isMinimized |-> review.isMinimized,
                     threads |-> <<>>])
        ELSE reviewMap
      i == MapIndex(created, review.id)
  IN [created EXCEPT ![i].threads =
        Append(@, [threadId |-> thread.id, isResolved |-> thread.isResolved])]

\* The threads before the first one that is skipped.
RECURSIVE BeforeFirstOrphan(_)
BeforeFirstOrphan(threadSeq) ==
  IF threadSeq = <<>> \/ Orphaned(Head(threadSeq)) THEN <<>>
  ELSE <<Head(threadSeq)>> \o BeforeFirstOrphan(Tail(threadSeq))

\* The loop with break in place of continue: it ends at the first thread
\* that is skipped.
RECURSIVE groupThreadsUntilOrphan(_)
groupThreadsUntilOrphan(threadSeq) ==
  LET kept == BeforeFirstOrphan(threadSeq)
  IN IF kept = <<>> THEN <<>>
     ELSE GroupThread(groupThreadsUntilOrphan(SubSeq(kept, 1, Len(kept) - 1)),
                      kept[Len(kept)])

RECURSIVE groupThreadsByReview(_)
groupThreadsByReview(threads) ==
  IF threads = <<>> THEN <<>>
  ELSE LET reviewMap == groupThreadsByReview(SubSeq(threads, 1, Len(threads) - 1))
           thread == threads[Len(threads)]
       IN IF Orphaned(thread) THEN reviewMap ELSE GroupThread(reviewMap, thread)

\* ---------------------------------------------------------- buildReviewList

\* First pass: populate from threads.
RECURSIVE FromThreads(_)
FromThreads(infos) ==
  IF infos = <<>> THEN <<>>
  ELSE LET reviewMap == FromThreads(SubSeq(infos, 1, Len(infos) - 1))
           info == infos[Len(infos)]
       IN MapSet(reviewMap, info.reviewId, info)

\* The second pass without the has() test: a later record replaces the entry.
RECURSIVE AddBareReviewsOverwrite(_, _)
AddBareReviewsOverwrite(reviewMap, allReviews) ==
  IF allReviews = <<>> THEN reviewMap
  ELSE LET before ==
             AddBareReviewsOverwrite(reviewMap,
                                     SubSeq(allReviews, 1, Len(allReviews) - 1))
           review == allReviews[Len(allReviews)]
       IN IF review.author = <<>> THEN before
          ELSE MapSet(before, review.id,
                      [reviewId |-> review.id,
                       author |-> review.author[1],
                       createdAt |-> review.createdAt,
                       isMinimized |-> review.isMinimized,
                       threads |-> <<>>])

\* The second pass with review.author?.login ?? "ghost" in place of the skip.
RECURSIVE AddBareReviewsGhost(_, _)
AddBareReviewsGhost(reviewMap, allReviews) ==
  IF allReviews = <<>> THEN reviewMap
  ELSE LET before ==
             AddBareReviewsGhost(reviewMap,
                                 SubSeq(allReviews, 1, Len(allReviews) - 1))
           review == allReviews[Len(allReviews)]
       IN IF MapHas(before, review.id) THEN before
          ELSE MapSet(before, review.id,
                      [reviewId |-> review.id,
                       author |-> IF review.author = <<>> THEN "ghost"
                                  ELSE review.author[1],
                       createdAt |-> review.createdAt,
                       isMinimized |-> review.isMinimized,
                       threads |-> <<>>])

\* The second pass into an array in place of the Map: every bare record with
\* an author is pushed.
RECURSIVE AddBareReviewsPush(_, _)
AddBareReviewsPush(reviewMap, allReviews) ==
  IF allReviews = <<>> THEN reviewMap
  ELSE LET before ==
             AddBareReviewsPush(reviewMap,
                                SubSeq(allReviews, 1, Len(allReviews) - 1))
           review == allReviews[Len(allReviews)]
       IN IF review.author = <<>> THEN before
          ELSE Append(before,
                      [reviewId |-> review.id,
                       author |-> review.author[1],
                       createdAt |-> review.createdAt,
                       isMinimized |-> review.isMinimized,
                       threads |-> <<>>])

\* The second pass that refreshes an entry found through threads with the
\* fields of the bare record, keeping its threads.
RECURSIVE AddBareReviewsMerge(_, _)
AddBareReviewsMerge(reviewMap, allReviews) ==
  IF allReviews = <<>> THEN reviewMap
  ELSE LET before ==
             AddBareReviewsMerge(reviewMap,
                                 SubSeq(allReviews, 1, Len(allReviews) - 1))
           review == allReviews[Len(allReviews)]
       IN IF review.author = <<>> THEN before
          ELSE MapSet(before, review.id,
                      [reviewId |-> review.id,
                       author |-> review.author[1],
                       createdAt |-> review.createdAt,
                       isMinimized |-> review.isMinimized,
                       threads |-> IF MapHas(before, review.id)
                                   THEN MapGet(before, review.id).threads
                                   ELSE <<>>])

\* Second pass: add any reviews not discovered through threads.
RECURSIVE AddBareReviews(_, _)
AddBareReviews(reviewMap, allReviews) ==
  IF allReviews = <<>> THEN reviewMap
  ELSE LET before == AddBareReviews(reviewMap, SubSeq(allReviews, 1, Len(allReviews) - 1))
           review == allReviews[Len(allReviews)]
       IN IF review.author = <<>> THEN before
          ELSE IF MapHas(before, review.id) THEN before
          ELSE MapSet(before, review.id,
                      [reviewId |-> review.id,
                       author |-> review.author[1],
                       createdAt |-> review.createdAt,
                       isMinimized |-> review.isMinimized,
                       threads |-> <<>>])

\* The list built from the threads alone.
buildReviewListThreadsOnly(threadList, bareReviews) ==
  FromThreads(groupThreadsByReview(threadList))

buildReviewList(threads, allReviews) ==
  AddBareReviews(FromThreads(groupThreadsByReview(threads)), allReviews)

\* ------------------------------------------------------------------- state

VARIABLES
  pc,            \* position of the operation in progress
  threads,       \* ReviewThread[]: the review threads
  allReviews,    \* PullRequestReviewNode[]: the bare review list
  grouped,       \* ReviewInfo[]: the result of groupThreadsByReview
  reviews,       \* ReviewInfo[]: the canonical review collection
  allowedUsers,  \* string[]: the allow-list
  reviewIds,     \* string[]: the result of findReviewsToMinimize
  remote,        \* the pull request on GitHub: threads, reviews, minimized
  repository,    \* run: context.repo (owner, repo), <<>> while unread
  prNumber,      \* run: the PR number, <<>> while undetermined
  threadsLoop,   \* fetchAllReviewThreads: its arguments, cursor, allThreads,
                 \* the requests it issued and the pages it received
  reviewsLoop,   \* fetchAllReviews: the same, with allReviews
  next,          \* run: position of the minimize loop in reviewIds
  minimizedCount,
  failedCount,
  outputs,       \* core.setOutput: the outputs set, as <<name, value>> pairs
  failed,        \* core.setFailed: "no", or what made the run fail
  calls,         \* the subjectIds of the minimize mutations issued in the run
  runNo,         \* the number of the run
  previous       \* the outcome of the run before: failed, outputs, calls

dataVars == <<threads, allReviews, grouped, reviews, reviewIds>>

runVars ==
  <<remote, repository, prNumber, threadsLoop, reviewsLoop, next, minimizedCount,
    failedCount, outputs, failed, calls, runNo, previous>>

vars == <<pc, dataVars, allowedUsers, runVars>>

IdleLoop ==
  [status |-> "idle", args |-> <<>>, cursor |-> <<>>, all |-> <<>>,
   requests |-> <<>>, pages |-> <<>>]

NoRun == [failed |-> "no", outputs |-> {}, calls |-> <<>>]

\* The state of the orchestrator before a run.
RunReset ==
  /\ repository = <<>>
  /\ prNumber = <<>>
  /\ threadsLoop = IdleLoop
  /\ reviewsLoop = IdleLoop
  /\ next = 0
  /\ minimizedCount = 0
  /\ failedCount = 0
  /\ outputs = {}
  /\ failed = "no"
  /\ calls = <<>>

\* No run takes place: the functions are applied alone.
NoRuns ==
  /\ remote = [threads |-> <<>>, reviews |-> <<>>, minimized |-> {}]
  /\ RunReset
  /\ runNo = 0
  /\ previous = NoRun

\* ------------------------------------ findReviewsToMinimize, applied alone

ReviewFields ==
  [author : Logins, createdAt : CreatedAts, isMinimized : BOOLEAN,
   threads : ThreadInfos(MaxThreadsPerReview)]

\* Review collections with unique identifiers: the review at position i has
\* identifier i.
ReviewLists ==
  {[i \in DOMAIN fs |->
      [reviewId |-> i, author |-> fs[i].author, createdAt |-> fs[i].createdAt,
       isMinimized |-> fs[i].isMinimized, threads |-> fs[i].threads]] :
     fs \in SeqsUpTo(ReviewFields, MaxReviews)}

AllowLists == {<<>>, <<"alice">>, <<"Alice", "bob">>}

InitFind ==
  /\ pc = "find"
  /\ threads = <<>>
  /\ allReviews = <<>>
  /\ grouped = <<>>
  /\ reviews \in ReviewLists
  /\ allowedUsers \in AllowLists
  /\ reviewIds = <<>>
  /\ NoRuns

ApplyFind ==
  /\ pc = "find"
  /\ reviewIds' = findReviewsToMinimize(reviews, allowedUsers)
  /\ pc' = "found"
  /\ UNCHANGED <<threads, allReviews, grouped, reviews, allowedUsers, runVars>>

NextFind == ApplyFind

SpecFind == InitFind /\ [][NextFind]_vars

\* --------------- findReviewsToMinimize over the reviews of several authors

\* A review without threads, or with one thread that is not resolved.
OrderedReviewFields ==
  [author : Logins, createdAt : CreatedAts, isMinimized : BOOLEAN,
   threads : {<<>>, <<[threadId |-> 1, isResolved |-> FALSE]>>}]

OrderedReviewLists ==
  {[i \in DOMAIN fs |->
      [reviewId |-> i, author |-> fs[i].author, createdAt |-> fs[i].createdAt,
       isMinimized |-> fs[i].isMinimized, threads |-> fs[i].threads]] :
     fs \in SeqsUpTo(OrderedReviewFields, MaxOrderedReviews)}

InitOrder ==
  /\ pc = "find"
  /\ threads = <<>>
  /\ allReviews = <<>>
  /\ grouped = <<>>
  /\ reviews \in OrderedReviewLists
  /\ allowedUsers = <<>>
  /\ reviewIds = <<>>
  /\ NoRuns

SpecOrder == InitOrder /\ [][NextFind]_vars

\* ------------------ groupThreadsByReview and buildReviewList, applied alone

ReviewRefs == 1..2

\* ReviewComment
ReviewComments ==
  [author : Nullable(Logins),
   pullRequestReview :
     Nullable([id : ReviewRefs, createdAt : CreatedAts,
               isMinimized : BOOLEAN])]

\* The query asks for comments(first: 1).
ThreadFields == [isResolved : BOOLEAN, comments : SeqsUpTo(ReviewComments, 1)]

\* Thread sequences with unique thread identifiers.
ThreadLists(n) ==
  {[i \in DOMAIN fs |->
      [id |-> i, isResolved |-> fs[i].isResolved, comments |-> fs[i].comments]] :
     fs \in SeqsUpTo(ThreadFields, n)}

\* PullRequestReviewNode
ReviewNodes ==
  [id : ReviewRefs, author : Nullable(Logins), createdAt : CreatedAts,
   isMinimized : BOOLEAN]

InitBuild ==
  /\ pc = "group"
  /\ threads \in ThreadLists(MaxThreads)
  /\ allReviews \in SeqsUpTo(ReviewNodes, MaxRecords - Len(threads))
  /\ grouped = <<>>
  /\ reviews = <<>>
  /\ allowedUsers = <<>>
  /\ reviewIds = <<>>
  /\ NoRuns

ApplyGroup ==
  /\ pc = "group"
  /\ grouped' = groupThreadsByReview(threads)
  /\ pc' = "build"
  /\ UNCHANGED <<threads, allReviews, reviews, allowedUsers, reviewIds, runVars>>

ApplyBuild ==
  /\ pc = "build"
  /\ reviews' = buildReviewList(threads, allReviews)
  /\ pc' = "find"
  /\ UNCHANGED <<threads, allReviews, grouped, allowedUsers, reviewIds, runVars>>

NextBuild == ApplyGroup \/ ApplyBuild \/ ApplyFind

SpecBuild == InitBuild /\ [][NextBuild]_vars

\* ------------------------------------------------- the GitHub GraphQL API

Min(a, b) == IF a < b THEN a ELSE b

\* The review a comment's pullRequestReview resolves to.
RemoteReview(id) ==
  remote.reviews[CHOOSE i \in DOMAIN remote.reviews : remote.reviews[i].id = id]

\* A node of the reviews connection: id, author, createdAt, isMinimized.
ReviewNode(review) ==
  [id |-> review.id, author |-> review.author, createdAt |-> review.createdAt,
   isMinimized |-> review.id \in remote.minimized]

\* A node of comments(first: 1): author, pullRequestReview.
CommentNode(comment) ==
  [author |-> comment.author,
   pullRequestReview |->
     IF comment.review = <<>> THEN <<>>
     ELSE LET review == RemoteReview(comment.review[1])
          IN <<[id |-> review.id, createdAt |-> review.createdAt,
                isMinimized |-> review.id \in remote.minimized]>>]

\* A node of the reviewThreads connection: id, isResolved, comments.
ThreadNode(thread) ==
  [id |-> thread.id, isResolved |-> thread.isResolved,
   comments |-> [i \in DOMAIN thread.comments |-> CommentNode(thread.comments[i])]]

\* The page of a connection after the cursor: nodes and pageInfo.
Connection(nodes, cursor) ==
  LET from == IF cursor = <<>> THEN 0 ELSE cursor[1]
      to == Min(from + PageSize, Len(nodes))
  IN [nodes |-> SubSeq(nodes, from + 1, to),
      pageInfo |-> [hasNextPage |-> to < Len(nodes),
                    endCursor |-> IF to > from THEN <<to>> ELSE <<>>]]

\* REVIEW_THREADS_QUERY answered.
ReviewThreadsResponse(cursor) ==
  Connection([i \in DOMAIN remote.threads |-> ThreadNode(remote.threads[i])], cursor)

\* REVIEWS_QUERY answered.
ReviewsResponse(cursor) ==
  Connection([i \in DOMAIN remote.reviews |-> ReviewNode(remote.reviews[i])], cursor)

\* -------------------------------------------------------------------- run

PrNumbers == {7}

\* github.context and the github-token input.
RunRepositories == {[owner |-> "strawgate", repo |-> "minimize-resolved-pr-reviews"]}

Contexts ==
  [token : BOOLEAN, repo : RunRepositories,
   pull_request : Nullable(PrNumbers), issue : Nullable(PrNumbers)]

\* context.payload.pull_request?.number ?? context.payload.issue?.number
PrNumberOf(context) ==
  IF context.pull_request # <<>> THEN context.pull_request ELSE context.issue

\* The variables of a query: { owner, repo, number: prNumber, cursor }.
Variables(args, cursor) ==
  [owner |-> args.owner, repo |-> args.repo, number |-> args.prNumber,
   cursor |-> cursor]

\* The loop body with allThreads = connection.nodes in place of the push.
LoopAfterAssign(loop, connection) ==
  LET more == connection.pageInfo.hasNextPage
      cursor == IF more THEN connection.pageInfo.endCursor ELSE loop.cursor
  IN [loop EXCEPT
        !.status = IF more THEN "waiting" ELSE "done",
        !.cursor = cursor,
        !.all = connection.nodes,
        !.pages = Append(loop.pages, connection),
        !.requests = IF more THEN Append(loop.requests, Variables(loop.args[1], cursor))
                     ELSE loop.requests]

\* The loop body that issues the next request before it takes the cursor.
LoopAfterStaleCursor(loop, connection) ==
  LET more == connection.pageInfo.hasNextPage
      cursor == IF more THEN connection.pageInfo.endCursor ELSE loop.cursor
  IN [loop EXCEPT
        !.status = IF more THEN "waiting" ELSE "done",
        !.cursor = cursor,
        !.all = loop.all \o connection.nodes,
        !.pages = Append(loop.pages, connection),
        !.requests = IF more
                     THEN Append(loop.requests, Variables(loop.args[1], loop.cursor))
                     ELSE loop.requests]

\* The loop body that also breaks on a page of fewer than two nodes.
LoopAfterBreakOnShortPage(loop, connection) ==
  LET more == connection.pageInfo.hasNextPage /\ Len(connection.nodes) >= 2
      cursor == IF more THEN connection.pageInfo.endCursor ELSE loop.cursor
  IN [loop EXCEPT
        !.status = IF more THEN "waiting" ELSE "done",
        !.cursor = cursor,
        !.all = loop.all \o connection.nodes,
        !.pages = Append(loop.pages, connection),
        !.requests = IF more THEN Append(loop.requests, Variables(loop.args[1], cursor))
                     ELSE loop.requests]

\* One pass of a pagination loop over a response: push the nodes, then break
\* or take the cursor and issue the next request.
LoopAfter(loop, connection) ==
  LET more == connection.pageInfo.hasNextPage
      cursor == IF more THEN connection.pageInfo.endCursor ELSE loop.cursor
  IN [loop EXCEPT
        !.status = IF more THEN "waiting" ELSE "done",
        !.cursor = cursor,
        !.all = loop.all \o connection.nodes,
        !.pages = Append(loop.pages, connection),
        !.requests = IF more THEN Append(loop.requests, Variables(loop.args[1], cursor))
                     ELSE loop.requests]

\* A pagination loop entered with its arguments: cursor = null, and the
\* first request issued.
LoopCalled(args) ==
  [IdleLoop EXCEPT !.status = "waiting", !.args = <<args>>,
                   !.requests = <<Variables(args, <<>>)>>]

\* fetchPullRequestData hands its owner, repo and prNumber to both loops.
FetchArgs(repo, number) ==
  [owner |-> repo.owner, repo |-> repo.repo, prNumber |-> number]

\* run without the return after setFailed: the fetch is called with an
\* undefined PR number (0 here).
StartWithoutReturn(context) ==
  /\ pc = "idle"
  /\ IF ~context.token
     THEN /\ failed' = "token"
          /\ pc' = "exit"
          /\ UNCHANGED <<repository, prNumber, threadsLoop, reviewsLoop>>
     ELSE /\ repository' = <<context.repo>>
          /\ prNumber' = PrNumberOf(context)
          /\ failed' = IF PrNumberOf(context) = <<>> THEN "prNumber" ELSE failed
          /\ LET number == IF PrNumberOf(context) = <<>> THEN 0
                           ELSE PrNumberOf(context)[1]
             IN /\ threadsLoop' = LoopCalled(FetchArgs(context.repo, number))
                /\ reviewsLoop' = LoopCalled(FetchArgs(context.repo, number))
          /\ pc' = "fetch"
  /\ UNCHANGED <<dataVars, allowedUsers, remote, next, minimizedCount,
                 failedCount, outputs, calls, runNo, previous>>

\* run, up to the await of fetchPullRequestData: the inputs, the PR number,
\* and the first request of each pagination loop.
Start(context) ==
  /\ pc = "idle"
  /\ IF ~context.token
     THEN /\ failed' = "token"
          /\ pc' = "exit"
          /\ UNCHANGED <<repository, prNumber, threadsLoop, reviewsLoop>>
     ELSE IF PrNumberOf(context) = <<>>
     THEN /\ failed' = "prNumber"
          /\ pc' = "exit"
          /\ repository' = <<context.repo>>
          /\ UNCHANGED <<prNumber, threadsLoop, reviewsLoop>>
     ELSE /\ repository' = <<context.repo>>
          /\ prNumber' = PrNumberOf(context)
          /\ threadsLoop' = LoopCalled(FetchArgs(context.repo, prNumber'[1]))
          /\ reviewsLoop' = LoopCalled(FetchArgs(context.repo, prNumber'[1]))
          /\ pc' = "fetch"
          /\ UNCHANGED failed
  /\ UNCHANGED <<dataVars, allowedUsers, remote, next, minimizedCount,
                 failedCount, outputs, calls, runNo, previous>>

\* A catch that swallows the rejection.
RejectedIgnored == UNCHANGED <<failed, pc>>

\* Promise.all rejects on the first rejection: run's catch calls setFailed.
Rejected ==
  IF pc = "fetch"
  THEN failed' = "fetch" /\ pc' = "exit"
  ELSE UNCHANGED <<failed, pc>>

\* client.graphql rejects.
Fault == [error |-> "GraphQL error"]

\* fetchAllReviewThreads: the request in flight is answered with a
\* connection, or faults.
ThreadsAnswered(response) ==
  /\ threadsLoop.status = "waiting"
  /\ IF response # Fault
     THEN /\ threadsLoop' = LoopAfter(threadsLoop, response)
          /\ UNCHANGED <<failed, pc>>
     ELSE /\ threadsLoop' = [threadsLoop EXCEPT !.status = "failed"]
          /\ Rejected
  /\ UNCHANGED <<dataVars, allowedUsers, remote, repository, prNumber,
                 reviewsLoop, next, minimizedCount, failedCount, outputs,
                 calls, runNo, previous>>

\* The request is answered by GitHub, or faults.
ThreadsPage(ok) ==
  ThreadsAnswered(IF ok THEN ReviewThreadsResponse(threadsLoop.cursor) ELSE Fault)

\* fetchAllReviews with the cursor of fetchAllReviewThreads: one cursor
\* variable for both loops.
ReviewsAnsweredSharedCursor(response) ==
  /\ reviewsLoop.status = "waiting"
  /\ IF response # Fault
     THEN /\ reviewsLoop' =
               [LoopAfter(reviewsLoop, response) EXCEPT
                  !.requests =
                    IF response.pageInfo.hasNextPage
                    THEN Append(reviewsLoop.requests,
                                Variables(reviewsLoop.args[1], threadsLoop.cursor))
                    ELSE @]
          /\ UNCHANGED <<failed, pc>>
     ELSE /\ reviewsLoop' = [reviewsLoop EXCEPT !.status = "failed"]
          /\ Rejected
  /\ UNCHANGED <<dataVars, allowedUsers, remote, repository, prNumber,
                 threadsLoop, next, minimizedCount, failedCount, outputs,
                 calls, runNo, previous>>

\* fetchAllReviews: the request in flight is answered with a connection, or
\* faults.
ReviewsAnswered(response) ==
  /\ reviewsLoop.status = "waiting"
  /\ IF response # Fault
     THEN /\ reviewsLoop' = LoopAfter(reviewsLoop, response)
          /\ UNCHANGED <<failed, pc>>
     ELSE /\ reviewsLoop' = [reviewsLoop EXCEPT !.status = "failed"]
          /\ Rejected
  /\ UNCHANGED <<dataVars, allowedUsers, remote, repository, prNumber,
                 threadsLoop, next, minimizedCount, failedCount, outputs,
                 calls, runNo, previous>>

\* The request is answered by GitHub, or faults.
ReviewsPage(ok) ==
  ReviewsAnswered(IF ok THEN ReviewsResponse(reviewsLoop.cursor) ELSE Fault)

\* A combinator that resolves with the first loop to return.
ResolvedAny == threadsLoop.status = "done" \/ reviewsLoop.status = "done"

\* Promise.all resolves once both loops have returned.
Resolved == threadsLoop.status = "done" /\ reviewsLoop.status = "done"

\* The outputs with the two counts exchanged.
SetOutputsSwapped(minimized, failures) ==
  {<<"minimized-count", failures>>, <<"failed-count", minimized>>}

\* The two outputs, set at the end of the minimize loop.
SetOutputs(minimized, failures) ==
  {<<"minimized-count", minimized>>, <<"failed-count", failures>>}

\* run, from the resolution of fetchPullRequestData to the first await of
\* minimizeReview, or to the end when there is nothing to minimize.
Assemble ==
  /\ pc = "fetch"
  /\ Resolved
  /\ threads' = threadsLoop.all
  /\ allReviews' = reviewsLoop.all
  /\ grouped' = groupThreadsByReview(threadsLoop.all)
  /\ reviews' = buildReviewList(threadsLoop.all, reviewsLoop.all)
  /\ reviewIds' = findReviewsToMinimize(reviews', allowedUsers)
  /\ minimizedCount' = 0
  /\ failedCount' = 0
  /\ IF reviewIds' = <<>>
     THEN /\ outputs' = SetOutputs(0, 0)
          /\ pc' = "exit"
          /\ UNCHANGED <<next, calls>>
     ELSE /\ next' = 1
          /\ calls' = <<reviewIds'[1]>>
          /\ pc' = "minimize"
          /\ UNCHANGED outputs
  /\ UNCHANGED <<allowedUsers, remote, repository, prNumber, threadsLoop,
                 reviewsLoop, failed, runNo, previous>>

\* The minimize loop without the inner try: the first fault ends the loop.
MinimizedAbortOnFault(ok) ==
  /\ pc = "minimize"
  /\ IF ok
     THEN /\ remote' = [remote EXCEPT !.minimized = @ \cup {reviewIds[next]}]
          /\ minimizedCount' = minimizedCount + 1
          /\ UNCHANGED failedCount
     ELSE /\ failedCount' = failedCount + 1
          /\ UNCHANGED <<remote, minimizedCount>>
  /\ IF ok /\ next < Len(reviewIds)
     THEN /\ next' = next + 1
          /\ calls' = Append(calls, reviewIds[next + 1])
          /\ UNCHANGED <<outputs, pc>>
     ELSE /\ outputs' = SetOutputs(minimizedCount', failedCount')
          /\ pc' = "exit"
          /\ UNCHANGED <<next, calls>>
  /\ UNCHANGED <<dataVars, allowedUsers, repository, prNumber, threadsLoop,
                 reviewsLoop, failed, runNo, previous>>

\* The minimize loop without the inner try: a fault reaches the outer catch,
\* which calls setFailed.
MinimizedFaultFails(ok) ==
  /\ pc = "minimize"
  /\ IF ok
     THEN /\ remote' = [remote EXCEPT !.minimized = @ \cup {reviewIds[next]}]
          /\ minimizedCount' = minimizedCount + 1
          /\ IF next < Len(reviewIds)
             THEN /\ next' = next + 1
                  /\ calls' = Append(calls, reviewIds[next + 1])
                  /\ UNCHANGED <<outputs, pc>>
             ELSE /\ outputs' = SetOutputs(minimizedCount', failedCount)
                  /\ pc' = "exit"
                  /\ UNCHANGED <<next, calls>>
          /\ UNCHANGED failed
     ELSE /\ failed' = "minimize"
          /\ pc' = "exit"
          /\ UNCHANGED <<remote, minimizedCount, next, calls, outputs>>
  /\ UNCHANGED <<dataVars, allowedUsers, repository, prNumber, threadsLoop,
                 reviewsLoop, failedCount, runNo, previous>>

\* The minimize mutation in flight succeeds (GitHub minimizes the subject)
\* or faults; the loop goes on to the next identifier, or run ends.
Minimized(ok) ==
  /\ pc = "minimize"
  /\ IF ok
     THEN /\ remote' = [remote EXCEPT !.minimized = @ \cup {reviewIds[next]}]
          /\ minimizedCount' = minimizedCount + 1
          /\ UNCHANGED failedCount
     ELSE /\ failedCount' = failedCount + 1
          /\ UNCHANGED <<remote, minimizedCount>>
  /\ IF next < Len(reviewIds)
     THEN /\ next' = next + 1
          /\ calls' = Append(calls, reviewIds[next + 1])
          /\ UNCHANGED <<outputs, pc>>
     ELSE /\ outputs' = SetOutputs(minimizedCount', failedCount')
          /\ pc' = "exit"
          /\ UNCHANGED <<next, calls>>
  /\ UNCHANGED <<dataVars, allowedUsers, repository, prNumber, threadsLoop,
                 reviewsLoop, failed, runNo, previous>>

\* The workflow starts the action again once the process has ended.
NextRun ==
  /\ pc = "exit"
  /\ threadsLoop.status # "waiting"
  /\ reviewsLoop.status # "waiting"
  /\ runNo < MaxRuns
  /\ runNo' = runNo + 1
  /\ previous' = [failed |-> failed, outputs |-> outputs, calls |-> calls]
  /\ pc' = "idle"
  /\ threads' = <<>>
  /\ allReviews' = <<>>
  /\ grouped' = <<>>
  /\ reviews' = <<>>
  /\ reviewIds' = <<>>
  /\ repository' = <<>>
  /\ prNumber' = <<>>
  /\ threadsLoop' = IdleLoop
  /\ reviewsLoop' = IdleLoop
  /\ next' = 0
  /\ minimizedCount' = 0
  /\ failedCount' = 0
  /\ outputs' = {}
  /\ failed' = "no"
  /\ calls' = <<>>
  /\ UNCHANGED <<allowedUsers, remote>>

\* The reviews of the pull request: identifiers are unique.
RemoteReviewLists ==
  {[i \in DOMAIN fs |->
      [id |-> i, author |-> <<fs[i].author>>, createdAt |-> fs[i].createdAt]] :
     fs \in SeqsUpTo([author : Logins, createdAt : CreatedAts], MaxRemoteReviews)}

\* The threads of the pull request: a thread's first comment has an author
\* or none, and belongs to one of the reviews or to none.
RemoteThreadLists(n) ==
  {[i \in DOMAIN fs |->
      [id |-> i, isResolved |-> fs[i].isResolved, comments |-> fs[i].comments]] :
     fs \in SeqsUpTo([isResolved : BOOLEAN,
                      comments : SeqsUpTo([author : Nullable(Logins),
                                           review : Nullable(1..n)], 1)],
                     MaxRemoteThreads)}

RunAllowLists == {<<>>, <<"alice">>}

Init ==
  /\ pc = "idle"
  /\ threads = <<>>
  /\ allReviews = <<>>
  /\ grouped = <<>>
  /\ reviews = <<>>
  /\ reviewIds = <<>>
  /\ allowedUsers \in RunAllowLists
  /\ \E rs \in RemoteReviewLists :
       \E ts \in RemoteThreadLists(Len(rs)) :
          remote = [threads |-> ts, reviews |-> rs, minimized |-> {}]
  /\ RunReset
  /\ runNo = 1
  /\ previous = NoRun

Next ==
  \/ \E context \in Contexts : Start(context)
  \/ \E ok \in BOOLEAN : ThreadsPage(ok)
  \/ \E ok \in BOOLEAN : ReviewsPage(ok)
  \/ Assemble
  \/ \E ok \in BOOLEAN : Minimized(ok)
  \/ NextRun

Spec == Init /\ [][Next]_vars

\* ------------------------------------------- runs repeated without end

\* The workflow starts the action again; the number of the run is counted
\* up to MaxRuns only.
Rerun ==
  /\ pc = "exit"
  /\ threadsLoop.status # "waiting"
  /\ reviewsLoop.status # "waiting"
  /\ runNo = MaxRuns
  /\ previous' = [failed |-> failed, outputs |-> outputs, calls |-> calls]
  /\ pc' = "idle"
  /\ threads' = <<>>
  /\ allReviews' = <<>>
  /\ grouped' = <<>>
  /\ reviews' = <<>>
  /\ reviewIds' = <<>>
  /\ repository' = <<>>
  /\ prNumber' = <<>>
  /\ threadsLoop' = IdleLoop
  /\ reviewsLoop' = IdleLoop
  /\ next' = 0
  /\ minimizedCount' = 0
  /\ failedCount' = 0
  /\ outputs' = {}
  /\ failed' = "no"
  /\ calls' = <<>>
  /\ UNCHANGED <<allowedUsers, remote, runNo>>

NextLive == Next \/ Rerun

\* A pull request with MaxRemoteReviews reviews, the first two by alice, the
\* first of them of the earlier day, and alice on the allow-list.
InitLive ==
  /\ Init
  /\ allowedUsers = <<"alice">>
  /\ Len(remote.reviews) = MaxRemoteReviews
  /\ remote.reviews[1].author = <<"alice">>
  /\ remote.reviews[2].author = <<"alice">>
  /\ DateGetTime(remote.reviews[1].createdAt) = 0

\* Every step that can be taken is taken in the end, and minimize calls that
\* are issued again and again do not fault for ever.
SpecLive ==
  /\ InitLive
  /\ [][NextLive]_vars
  /\ WF_vars(NextLive)
  /\ SF_vars(Minimized(TRUE))

\* ---------------------------- fetchPullRequestData over a scripted client

\* The owner and repo of the caller.
Repositories ==
  {[owner |-> "my-org", repo |-> "my-repo"],
   [owner |-> "my-repo", repo |-> "my-org"]}

FetchPrNumbers == {1, 42}

Cursors == {"cursor1", "cursor2"}

\* The connections a scripted client answers with: any nodes, any pageInfo.
ScriptedPages ==
  [nodes : {<<"n1">>, <<"n2", "n3">>},
   pageInfo : [hasNextPage : BOOLEAN, endCursor : Nullable(Cursors)]]

\* What the client may answer to the request in flight: a fault, or a page;
\* the last page of the script has no next page.
Served(loop) ==
  {Fault} \cup
  {page \in ScriptedPages :
     page.pageInfo.hasNextPage => Len(loop.pages) < MaxPages - 1}

InitFetch ==
  /\ pc = "call"
  /\ threads = <<>>
  /\ allReviews = <<>>
  /\ grouped = <<>>
  /\ reviews = <<>>
  /\ allowedUsers = <<>>
  /\ reviewIds = <<>>
  /\ remote = [threads |-> <<>>, reviews |-> <<>>, minimized |-> {}]
  /\ repository \in {<<r>> : r \in Repositories}
  /\ prNumber \in {<<n>> : n \in FetchPrNumbers}
  /\ threadsLoop = IdleLoop
  /\ reviewsLoop = IdleLoop
  /\ next = 0
  /\ minimizedCount = 0
  /\ failedCount = 0
  /\ outputs = {}
  /\ failed = "no"
  /\ calls = <<>>
  /\ runNo = 0
  /\ previous = NoRun

\* fetchPullRequestData is called: both loops run to their first await.
FetchCall ==
  /\ pc = "call"
  /\ threadsLoop' = LoopCalled(FetchArgs(repository[1], prNumber[1]))
  /\ reviewsLoop' = LoopCalled(FetchArgs(repository[1], prNumber[1]))
  /\ pc' = "fetch"
  /\ UNCHANGED <<dataVars, allowedUsers, remote, repository, prNumber, next,
                 minimizedCount, failedCount, outputs, failed, calls, runNo,
                 previous>>

\* fetchPullRequestData returns { threads, reviews }.
FetchResolved ==
  /\ pc = "fetch"
  /\ Resolved
  /\ threads' = threadsLoop.all
  /\ allReviews' = reviewsLoop.all
  /\ pc' = "fetched"
  /\ UNCHANGED <<grouped, reviews, reviewIds, allowedUsers, runVars>>

NextFetch ==
  \/ FetchCall
  \/ \E response \in Served(threadsLoop) : ThreadsAnswered(response)
  \/ \E response \in Served(reviewsLoop) : ReviewsAnswered(response)
  \/ FetchResolved

SpecFetch == InitFetch /\ [][NextFetch]_vars

\* Every request is answered, with a page or a fault, and every continuation
\* that can run does run.
SpecFetchLive == SpecFetch /\ WF_vars(NextFetch)

\* ================================================================== claims

Returned == Range(reviewIds)

Time(i) == DateGetTime(reviews[i].createdAt)

\* The reviews of the author of review i, i included.
SameAuthor(i) == {j \in DOMAIN reviews : reviews[j].author = reviews[i].author}

\* Review i is its author's most recent review: no review of the author is
\* more recent, and of those created at the same instant it comes first.
MostRecent(i) ==
  \A j \in SameAuthor(i) \ {i} :
     Time(j) < Time(i) \/ (Time(j) = Time(i) /\ i < j)

\* The allow-list accepts the author.
Accepted(author) == allowedUsers = <<>> \/ author \in Range(allowedUsers)

FullyResolved(i) == \A t \in Range(reviews[i].threads) : t.isResolved

Eligible(i) == ~reviews[i].isMinimized /\ FullyResolved(i)

\* C1: the identifier of an author's most recent review is never in the
\* output of findReviewsToMinimize, whatever its threads and isMinimized; an
\* author with a single review contributes nothing.
C1_MostRecentNeverReturned ==
  pc = "found" =>
    \A i \in DOMAIN reviews :
       MostRecent(i) => reviews[i].reviewId \notin Returned

\* An accepted author's most recent review would pass the eligibility test,
\* and an older review of the same author is returned.
C1_Witness ==
  /\ pc = "found"
  /\ \E i \in DOMAIN reviews :
       /\ MostRecent(i) /\ Eligible(i) /\ Accepted(reviews[i].author)
       /\ \E j \in SameAuthor(i) : reviews[j].reviewId \in Returned
  /\ \E i \in DOMAIN reviews :
       /\ SameAuthor(i) = {i} /\ Eligible(i) /\ Accepted(reviews[i].author)

\* C2: for an accepted author, a review other than the most recent one is
\* returned iff it is not minimized and each of its threads is resolved.
C2_OlderReturnedIffEligible ==
  pc = "found" =>
    \A i \in DOMAIN reviews :
       (Accepted(reviews[i].author) /\ ~MostRecent(i)) =>
          (reviews[i].reviewId \in Returned <=> Eligible(i))

\* Two older reviews of an accepted author: one with a resolved and an
\* unresolved thread (left out), one without threads (returned).
C2_Witness ==
  /\ pc = "found"
  /\ \E i, j \in DOMAIN reviews :
       /\ j \in SameAuthor(i) /\ Accepted(reviews[i].author)
       /\ ~MostRecent(i) /\ ~MostRecent(j)
       /\ ~reviews[i].isMinimized /\ Len(reviews[i].threads) = 2
       /\ reviews[i].threads[1].isResolved /\ ~reviews[i].threads[2].isResolved
       /\ reviews[i].reviewId \notin Returned
       /\ reviews[j].threads = <<>> /\ reviews[j].reviewId \in Returned

AuthorOf(id) ==
  reviews[CHOOSE i \in DOMAIN reviews : reviews[i].reviewId = id].author

AllowNames == Logins \cup {"Alice"}

\* C3: a non-empty allowedUsers returns no review of an author that is not
\* an exact member, and returns for the members what the empty list returns
\* for them; the empty list returns what a list of every author present
\* returns.
C3_AllowListFilters ==
  pc = "found" =>
    LET unfiltered == findReviewsToMinimize(reviews, <<>>)
        Listed(id) == AuthorOf(id) \in Range(allowedUsers)
    IN IF Len(allowedUsers) > 0
       THEN /\ \A id \in Returned : Listed(id)
            /\ reviewIds = SelectSeq(unfiltered, Listed)
       ELSE \A list \in SeqsUpTo(AllowNames, 2) :
               {reviews[i].author : i \in DOMAIN reviews} \subseteq Range(list)
                 => findReviewsToMinimize(reviews, list) = reviewIds

\* The list names "Alice"; an older eligible review of "alice" is left out.
C3_Witness ==
  /\ pc = "found"
  /\ Includes(allowedUsers, "Alice")
  /\ \E i \in DOMAIN reviews :
       /\ reviews[i].author = "alice" /\ ~MostRecent(i) /\ Eligible(i)
       /\ reviews[i].reviewId \notin Returned

\* The collection with isMinimized set on exactly the returned reviews.
MarkReturned ==
  [i \in DOMAIN reviews |->
     IF reviews[i].reviewId \in Returned
     THEN [reviews[i] EXCEPT !.isMinimized = TRUE]
     ELSE reviews[i]]

\* C6: findReviewsToMinimize over the collection in which the reviews it
\* returned are now minimized returns none of those identifiers.
C6_SecondPassSkipsReturned ==
  pc = "found" =>
    Range(findReviewsToMinimize(MarkReturned, allowedUsers)) \cap Returned = {}

\* Two reviews were returned by the first pass.
C6_Witness == pc = "found" /\ Cardinality(Returned) = 2

\* ------------------------------------------------------- C8, C9, C10, C5

\* The thread's first comment exists and has an author and a review.
Attributed(thread) ==
  /\ thread.comments # <<>>
  /\ thread.comments[1].author # <<>>
  /\ thread.comments[1].pullRequestReview # <<>>

ReviewIdOf(thread) == thread.comments[1].pullRequestReview[1].id

ThreadWithId(id) == CHOOSE t \in Range(threads) : t.id = id

Grouped == pc \in {"build", "find", "found"}

Built == pc \in {"find", "found"}

\* C8: groupThreadsByReview attaches no thread whose comment list is empty
\* or whose first comment has no author or no pullRequestReview, creates no
\* review for such a thread, and returns no review without a thread.
C8_OrphansContributeNothing ==
  Grouped =>
    \A k \in DOMAIN grouped :
       /\ Len(grouped[k].threads) >= 1
       /\ \A info \in Range(grouped[k].threads) :
             /\ \E t \in Range(threads) : t.id = info.threadId
             /\ Attributed(ThreadWithId(info.threadId))
             /\ ReviewIdOf(ThreadWithId(info.threadId)) = grouped[k].reviewId

\* A thread whose first comment has no author is skipped although another
\* thread put the review it references into the result.
C8_Witness ==
  /\ pc = "build"
  /\ \E t \in Range(threads) :
       /\ t.comments # <<>> /\ t.comments[1].author = <<>>
       /\ t.comments[1].pullRequestReview # <<>>
       /\ \E k \in DOMAIN grouped : grouped[k].reviewId = ReviewIdOf(t)

GroupedIds == {grouped[k].reviewId : k \in DOMAIN grouped}

BuiltIds == {reviews[i].reviewId : i \in DOMAIN reviews}

\* The positions of the output that carry the identifier.
Entries(id) == {i \in DOMAIN reviews : reviews[i].reviewId = id}

\* The first bare record carrying the identifier.
FirstBare(id) ==
  allReviews[CHOOSE k \in DOMAIN allReviews :
     /\ allReviews[k].id = id
     /\ \A j \in 1..(k - 1) : allReviews[j].id # id]

\* The first bare record that has an author and carries the identifier.
FirstAuthoredBare(id) ==
  allReviews[CHOOSE k \in DOMAIN allReviews :
     /\ allReviews[k].id = id /\ allReviews[k].author # <<>>
     /\ \A j \in 1..(k - 1) :
          allReviews[j].id # id \/ allReviews[j].author = <<>>]

\* The output holds the identifier of `node` once, without threads, with the
\* fields of `from`.
BareEntry(node, from) ==
  /\ Cardinality(Entries(node.id)) = 1
  /\ \A i \in Entries(node.id) :
       /\ reviews[i].threads = <<>>
       /\ <<reviews[i].author>> = from.author
       /\ reviews[i].createdAt = from.createdAt
       /\ reviews[i].isMinimized = from.isMinimized

\* C9 as stated: every bare record with an author whose identifier thread
\* grouping does not produce appears exactly once in the buildReviewList
\* output, without threads, with the author, createdAt and isMinimized of
\* the first bare record carrying that identifier.
C9_FieldsOfFirstBareRecord ==
  Built =>
    \A k \in DOMAIN allReviews :
       (allReviews[k].author # <<>> /\ allReviews[k].id \notin GroupedIds)
         => BareEntry(allReviews[k], FirstBare(allReviews[k].id))

\* C9 amended: the fields are those of the first bare record that has an
\* author and carries that identifier.
C9_FieldsOfFirstAuthoredBareRecord ==
  Built =>
    \A k \in DOMAIN allReviews :
       (allReviews[k].author # <<>> /\ allReviews[k].id \notin GroupedIds)
         => BareEntry(allReviews[k], FirstAuthoredBare(allReviews[k].id))

\* The bare list carries an identifier twice, with authors and with
\* different fields, and thread grouping produced another identifier.
C9_Witness ==
  /\ pc = "find"
  /\ grouped # <<>>
  /\ \E j, k \in DOMAIN allReviews :
       /\ j < k /\ allReviews[j].id = allReviews[k].id
       /\ allReviews[j].id \notin GroupedIds
       /\ allReviews[j].author # <<>> /\ allReviews[k].author # <<>>
       /\ allReviews[j].author # allReviews[k].author
       /\ allReviews[j].createdAt # allReviews[k].createdAt
       /\ allReviews[j].isMinimized # allReviews[k].isMinimized

\* C10 as stated: the buildReviewList output contains no review with the
\* identifier of a bare record whose author is absent.
C10_AuthorlessIdNeverAppears ==
  Built =>
    \A k \in DOMAIN allReviews :
       allReviews[k].author = <<>> => allReviews[k].id \notin BuiltIds

\* C10 amended: the output contains a review with the identifier of an
\* authorless bare record only if a thread whose first comment has an author
\* references that identifier or a bare record that has an author carries it,
\* and the review has that thread's or that record's author.
C10_AuthorlessRecordAddsNothing ==
  Built =>
    \A k \in DOMAIN allReviews :
       allReviews[k].author = <<>> =>
         \A i \in Entries(allReviews[k].id) :
            \/ \E t \in Range(threads) :
                  /\ Attributed(t) /\ ReviewIdOf(t) = allReviews[k].id
                  /\ t.comments[1].author = <<reviews[i].author>>
            \/ \E j \in DOMAIN allReviews :
                  /\ allReviews[j].id = allReviews[k].id
                  /\ allReviews[j].author = <<reviews[i].author>>

\* An authorless bare record whose identifier nothing else carries is left
\* out of an output that holds another review.
C10_Witness ==
  /\ pc = "find"
  /\ reviews # <<>>
  /\ \E k \in DOMAIN allReviews :
       /\ allReviews[k].author = <<>>
       /\ allReviews[k].id \notin BuiltIds

\* The bare record's identifier is referenced by no thread.
BareOnly(node) ==
  /\ node.author # <<>>
  /\ \A t \in Range(threads) :
       (t.comments # <<>> /\ t.comments[1].pullRequestReview # <<>>)
         => ReviewIdOf(t) # node.id

\* C5: a review that appears only in the bare list is in the collection
\* without threads; when it is its author's most recent review it is kept
\* and the author's older eligible reviews are returned; when a newer review
\* of its author exists and it is not minimized, it is returned.
C5_BareReviewCounts ==
  pc = "found" =>
    \A k \in DOMAIN allReviews :
       BareOnly(allReviews[k]) =>
         /\ Entries(allReviews[k].id) # {}
         /\ \A i \in Entries(allReviews[k].id) :
              /\ reviews[i].threads = <<>>
              /\ Accepted(reviews[i].author)
              /\ MostRecent(i) =>
                   /\ reviews[i].reviewId \notin Returned
                   /\ \A j \in SameAuthor(i) :
                        (Time(j) < Time(i) /\ Eligible(j))
                          => reviews[j].reviewId \in Returned
              /\ ((\E j \in SameAuthor(i) : Time(j) > Time(i))
                     /\ ~reviews[i].isMinimized)
                   => reviews[i].reviewId \in Returned

\* A bare approval is its author's most recent review; the author's older
\* review, found through a resolved thread, is returned.
C5_Witness ==
  /\ pc = "found"
  /\ \E k \in DOMAIN allReviews :
       /\ BareOnly(allReviews[k])
       /\ \E i \in Entries(allReviews[k].id) :
            /\ MostRecent(i) /\ Eligible(i)
            /\ \E j \in SameAuthor(i) :
                 /\ Time(j) < Time(i) /\ reviews[j].threads # <<>>
                 /\ reviews[j].reviewId \in Returned

\* ----------------------------------------------------------------- C4, C7

\* The thread's first comment references the review.
BelongsTo(thread, id) ==
  /\ thread.comments # <<>>
  /\ thread.comments[1].pullRequestReview # <<>>
  /\ ReviewIdOf(thread) = id

\* C4: in a run, no minimize mutation is issued for a review to which a
\* fetched thread with isResolved = false belongs, a thread belonging to the
\* review its first comment references.
C4_NoCallForUnresolvedReview ==
  \A k \in DOMAIN calls :
     \A t \in Range(threads) : BelongsTo(t, calls[k]) => t.isResolved

\* What the code keeps of C4: no mutation is issued for a review to which an
\* unresolved thread whose first comment has an author belongs.
C4_NoCallForUnresolvedAttributedThread ==
  \A k \in DOMAIN calls :
     \A t \in Range(threads) :
        (BelongsTo(t, calls[k]) /\ t.comments[1].author # <<>>) => t.isResolved

\* The run before completed its minimize loop without a fault.
PreviousAllMinimized ==
  /\ runNo > 1
  /\ previous.failed = "no"
  /\ <<"failed-count", 0>> \in previous.outputs

\* C7: after a run whose minimize calls all succeeded, the next run issues
\* no minimize call, and when it completes it reports minimized-count = 0
\* and failed-count = 0.
C7_NextRunMinimizesNothing ==
  PreviousAllMinimized =>
    /\ calls = <<>>
    /\ (pc = "exit" /\ failed = "no") => outputs = SetOutputs(0, 0)

\* The first run minimized two reviews; the second run has completed.
C7_Witness ==
  /\ PreviousAllMinimized
  /\ <<"minimized-count", 2>> \in previous.outputs
  /\ pc = "exit" /\ failed = "no"
  /\ outputs = SetOutputs(0, 0)
  /\ \E t \in Range(threads) :
       \E id \in Range(previous.calls) : BelongsTo(t, id)

\* ----------------------------------------------------- C11, C12, C13, C14

\* C11: no two entries of the buildReviewList output share a reviewId, also
\* when an identifier is found through several threads, through the threads
\* and the bare list, or several times in the bare list.
C11_ReviewIdsUnique ==
  Built =>
    \A i, j \in DOMAIN reviews :
       reviews[i].reviewId = reviews[j].reviewId => i = j

\* Two threads reference a review that the bare list carries too, and the
\* output holds it once.
C11_Witness ==
  /\ pc = "find"
  /\ Len(threads) = 2
  /\ \A t \in Range(threads) : Attributed(t) /\ ReviewIdOf(t) = 1
  /\ \E k \in DOMAIN allReviews :
       allReviews[k].id = 1 /\ allReviews[k].author # <<>>
  /\ Cardinality(Entries(1)) = 1

\* The (id, resolved) summary of a thread.
Summary(thread) == [threadId |-> thread.id, isResolved |-> thread.isResolved]

SummariesOf(threadSeq) == [i \in DOMAIN threadSeq |-> Summary(threadSeq[i])]

\* C12 as stated: the thread list of each review of the buildReviewList
\* output is the list of the summaries of all input threads whose first
\* comment references the review's identifier.
C12_ThreadsOfAllReferencingThreads ==
  Built =>
    \A i \in DOMAIN reviews :
       LET References(t) == BelongsTo(t, reviews[i].reviewId)
       IN reviews[i].threads = SummariesOf(SelectSeq(threads, References))

\* C12 amended: the thread list is the list, in input order, of the
\* summaries of all input threads whose first comment has an author and
\* references the review's identifier.
C12_ThreadsOfAttributedReferencingThreads ==
  Built =>
    \A i \in DOMAIN reviews :
       LET References(t) == Attributed(t) /\ ReviewIdOf(t) = reviews[i].reviewId
       IN reviews[i].threads = SummariesOf(SelectSeq(threads, References))

\* A review has the one thread that references it with an author; the thread
\* that references it without an author is left out; a review from the bare
\* list has no thread.
C12_Witness ==
  /\ pc = "find"
  /\ \E i, j \in DOMAIN reviews :
       /\ Len(reviews[i].threads) = 1
       /\ reviews[j].threads = <<>>
       /\ \E t \in Range(threads) :
            /\ BelongsTo(t, reviews[i].reviewId)
            /\ t.comments[1].author = <<>>
            /\ Summary(t) \notin Range(reviews[i].threads)

\* The first thread whose first comment has an author and references the
\* review.
FirstThreadOf(id) ==
  threads[CHOOSE k \in DOMAIN threads :
     /\ Attributed(threads[k]) /\ ReviewIdOf(threads[k]) = id
     /\ \A j \in 1..(k - 1) :
          ~(Attributed(threads[j]) /\ ReviewIdOf(threads[j]) = id)]

\* C13: for an identifier found through threads, the buildReviewList entry
\* is the record groupThreadsByReview made: author, createdAt and isMinimized
\* from the thread's first comment, the grouped threads, and nothing of a
\* bare record carrying the identifier.
C13_ThreadRecordPreferred ==
  Built =>
    \A k \in DOMAIN grouped :
       /\ Cardinality(Entries(grouped[k].reviewId)) = 1
       /\ \A i \in Entries(grouped[k].reviewId) :
            LET first == FirstThreadOf(grouped[k].reviewId).comments[1]
            IN /\ reviews[i] = grouped[k]
               /\ <<reviews[i].author>> = first.author
               /\ reviews[i].createdAt = first.pullRequestReview[1].createdAt
               /\ reviews[i].isMinimized = first.pullRequestReview[1].isMinimized

\* The bare list carries, before any other record, the identifier of a
\* review found through a thread, with another author, createdAt and
\* isMinimized.
C13_Witness ==
  /\ pc = "find"
  /\ \E k \in DOMAIN grouped :
       /\ allReviews # <<>>
       /\ allReviews[1].id = grouped[k].reviewId
       /\ allReviews[1].author # <<>>
       /\ allReviews[1].author # <<grouped[k].author>>
       /\ allReviews[1].createdAt # grouped[k].createdAt
       /\ allReviews[1].isMinimized # grouped[k].isMinimized
       /\ \E i \in Entries(grouped[k].reviewId) : reviews[i] = grouped[k]

\* C14: groupThreadsByReview takes author, createdAt and isMinimized of a
\* review from the first non-orphaned thread that references it; a later
\* thread only adds its summary.
C14_FirstThreadWins ==
  Grouped =>
    \A k \in DOMAIN grouped :
       LET id == grouped[k].reviewId
           first == FirstThreadOf(id).comments[1]
           References(t) == Attributed(t) /\ ReviewIdOf(t) = id
       IN /\ <<grouped[k].author>> = first.author
          /\ grouped[k].createdAt = first.pullRequestReview[1].createdAt
          /\ grouped[k].isMinimized = first.pullRequestReview[1].isMinimized
          /\ grouped[k].threads = SummariesOf(SelectSeq(threads, References))

\* Two threads reference the same review with different author, createdAt
\* and isMinimized.
C14_Witness ==
  /\ pc = "build"
  /\ Len(threads) = 2 /\ Len(grouped) = 1
  /\ \A t \in Range(threads) : Attributed(t)
  /\ LET a == threads[1].comments[1]
         b == threads[2].comments[1]
     IN /\ a.author # b.author
        /\ a.pullRequestReview[1].createdAt # b.pullRequestReview[1].createdAt
        /\ a.pullRequestReview[1].isMinimized # b.pullRequestReview[1].isMinimized
  /\ Len(grouped[1].threads) = 2

\* --------------------------------------------------------------- C15, C16

\* The nodes of the pages, concatenated in the order of the pages.
RECURSIVE NodesOf(_)
NodesOf(pages) ==
  IF pages = <<>> THEN <<>>
  ELSE NodesOf(SubSeq(pages, 1, Len(pages) - 1)) \o pages[Len(pages)].nodes

\* The result is made of every page the loop was served, the last of which
\* is the first without a next page, and the loop asked for no page more.
UpToLastPage(loop, result) ==
  /\ result = NodesOf(loop.pages)
  /\ loop.pages # <<>>
  /\ \A k \in DOMAIN loop.pages :
       loop.pages[k].pageInfo.hasNextPage <=> k < Len(loop.pages)
  /\ Len(loop.requests) = Len(loop.pages)

\* C15: for threads and for reviews, fetchPullRequestData returns the nodes
\* of every page, in fetch order, up to and including the first page whose
\* hasNextPage is false, and nothing from beyond it.
C15_PagesConcatenated ==
  pc = "fetched" =>
    /\ UpToLastPage(threadsLoop, threads)
    /\ UpToLastPage(reviewsLoop, allReviews)

\* The threads came in three pages and the reviews in two, with different
\* nodes on the first two pages.
C15_Witness ==
  /\ pc = "fetched"
  /\ Len(threadsLoop.pages) = 3 /\ Len(reviewsLoop.pages) = 2
  /\ threadsLoop.pages[1].nodes # threadsLoop.pages[2].nodes
  /\ reviewsLoop.pages[1].nodes # reviewsLoop.pages[2].nodes
  /\ Len(threads) >= 4

\* The requests of the loop carry the caller's owner, repo and number; the
\* first carries no cursor, a later one the endCursor of the page before.
RequestsFollowPages(loop) ==
  \A k \in DOMAIN loop.requests :
     /\ loop.requests[k].owner = repository[1].owner
     /\ loop.requests[k].repo = repository[1].repo
     /\ loop.requests[k].number = prNumber[1]
     /\ loop.requests[k].cursor =
          IF k = 1 THEN <<>> ELSE loop.pages[k - 1].pageInfo.endCursor

\* C16: every request of fetchPullRequestData carries the caller's owner,
\* repo and PR number; the first request for a resource carries cursor =
\* null, each later one the endCursor of the page before it of that resource.
C16_RequestsCarryArgumentsAndCursor ==
  RequestsFollowPages(threadsLoop) /\ RequestsFollowPages(reviewsLoop)

\* Three requests for threads, after pages with different, non-null
\* endCursors, while two were issued for reviews with another cursor.
C16_Witness ==
  /\ Len(threadsLoop.requests) = 3
  /\ threadsLoop.pages[1].pageInfo.endCursor = <<"cursor1">>
  /\ threadsLoop.pages[2].pageInfo.endCursor = <<"cursor2">>
  /\ threadsLoop.requests[3].cursor = <<"cursor2">>
  /\ Len(reviewsLoop.requests) = 2
  /\ reviewsLoop.requests[2].cursor = <<"cursor2">>

\* ----------------------------------------------------- C17, C18, C19, C20

\* run has gone past the await of fetchPullRequestData.
Assembled ==
  \/ pc = "minimize"
  \/ reviews # <<>> \/ reviewIds # <<>> \/ calls # <<>> \/ outputs # {}

\* C17: buildReviewList, findReviewsToMinimize and every minimize call
\* happen only after both pagination loops have received their last page;
\* what is assembled is the whole of both collections.
C17_AssemblyAfterBothLoops ==
  Assembled =>
    /\ threadsLoop.status = "done" /\ reviewsLoop.status = "done"
    /\ UpToLastPage(threadsLoop, threads)
    /\ UpToLastPage(reviewsLoop, allReviews)
    /\ reviews = buildReviewList(threadsLoop.all, reviewsLoop.all)

\* A minimize call is in flight; the reviews came in two pages and there is
\* a thread.
C17_Witness ==
  /\ pc = "minimize"
  /\ Len(reviewsLoop.pages) = 2
  /\ threads # <<>>
  /\ calls # <<>>

FailedLoops ==
  {loop \in {threadsLoop, reviewsLoop} : loop.status = "failed"}

\* C18: once a page request of either resource has faulted, the run is
\* failed and over, no minimize call was issued, no output is set, and the
\* loop issued no request after the one that faulted.
C18_FetchFaultFailsRun ==
  FailedLoops # {} =>
    /\ failed = "fetch" /\ pc = "exit"
    /\ calls = <<>> /\ outputs = {}
    /\ reviews = <<>> /\ reviewIds = <<>>
    /\ \A loop \in FailedLoops : Len(loop.requests) = Len(loop.pages) + 1

\* The request for the second page of reviews faulted after the threads had
\* been fetched; the first page alone holds a review that could be minimized.
C18_Witness ==
  /\ reviewsLoop.status = "failed" /\ Len(reviewsLoop.pages) = 1
  /\ threadsLoop.status = "done" /\ threadsLoop.all # <<>>
  /\ findReviewsToMinimize(
       buildReviewList(threadsLoop.all, reviewsLoop.all), allowedUsers) # <<>>
  /\ failed = "fetch"

\* The minimize calls answered so far.
Answered == IF pc = "minimize" THEN next - 1 ELSE next

\* C19: the minimize calls issued are the identifiers findReviewsToMinimize
\* returned, in list order, each once and one at a time, whatever the calls
\* before answered; a run that completes has called for every identifier.
C19_OneCallPerIdentifierInOrder ==
  /\ calls = SubSeq(reviewIds, 1, next)
  /\ minimizedCount + failedCount = Answered
  /\ (pc = "exit" /\ failed = "no") => calls = reviewIds

\* The first of two calls faulted and the second succeeded.
C19_Witness ==
  /\ pc = "exit" /\ failed = "no" /\ runNo = 1
  /\ Len(reviewIds) = 2 /\ calls = reviewIds
  /\ remote.minimized = {reviewIds[2]}

\* The calls of the run that succeeded: GitHub minimized their subject.
Succeeded == {k \in DOMAIN calls : calls[k] \in remote.minimized}

Faulted == {k \in DOMAIN calls : calls[k] \notin remote.minimized}

\* C20: at the end of the mutation phase minimized-count is the number of
\* minimize calls that succeeded, failed-count the number that faulted, and
\* their sum the number of identifiers findReviewsToMinimize returned.
C20_CountsMatchCalls ==
  (pc = "exit" /\ failed = "no") =>
    /\ outputs = {<<"minimized-count", Cardinality(Succeeded)>>,
                  <<"failed-count", Cardinality(Faulted)>>}
    /\ minimizedCount = Cardinality(Succeeded)
    /\ failedCount = Cardinality(Faulted)
    /\ minimizedCount + failedCount = Len(reviewIds)

\* The first of two calls succeeded and the second faulted.
C20_Witness ==
  /\ pc = "exit" /\ failed = "no" /\ runNo = 1
  /\ Len(reviewIds) = 2
  /\ remote.minimized = {reviewIds[1]}
  /\ <<"minimized-count", 1>> \in outputs
  /\ <<"failed-count", 1>> \in outputs

\* --------------------------------------------------------------- C21, C22

\* C21: a run is marked failed only before any minimize call, for a missing
\* token, an undeterminable PR number or a fetch fault; a run whose fetches
\* all succeeded is not marked failed and, once over, has set both counts,
\* however many minimize calls faulted.
C21_MinimizeFaultsNotFatal ==
  /\ failed # "no" =>
       /\ calls = <<>> /\ outputs = {}
       /\ \/ repository = <<>>
          \/ prNumber = <<>>
          \/ FailedLoops # {}
  /\ (threadsLoop.status = "done" /\ reviewsLoop.status = "done") =>
       /\ failed = "no"
       /\ pc = "exit" =>
            \E m, f \in 0..Len(reviewIds) :
               outputs = {<<"minimized-count", m>>, <<"failed-count", f>>}

\* Both minimize calls of a run faulted; the run is over and not failed.
C21_Witness ==
  /\ pc = "exit" /\ failed = "no"
  /\ Len(calls) = 2 /\ failedCount = 2
  /\ <<"failed-count", 2>> \in outputs
  /\ <<"minimized-count", 0>> \in outputs

\* C22: when the token is there and neither payload yields a PR number, the
\* run is marked failed and is over without a fetch request or a minimize
\* call.
C22_NoPrNumberFailsBeforeFetch ==
  (repository # <<>> /\ prNumber = <<>>) =>
    /\ failed = "prNumber" /\ pc = "exit"
    /\ threadsLoop.requests = <<>> /\ reviewsLoop.requests = <<>>
    /\ calls = <<>> /\ outputs = {}

\* The run failed for its PR number on a pull request that has reviews to
\* minimize.
C22_Witness ==
  /\ failed = "prNumber" /\ pc = "exit"
  /\ repository # <<>> /\ prNumber = <<>>
  /\ threadsLoop = IdleLoop /\ reviewsLoop = IdleLoop
  /\ findReviewsToMinimize(
       buildReviewList(
         [i \in DOMAIN remote.threads |-> ThreadNode(remote.threads[i])],
         [i \in DOMAIN remote.reviews |-> ReviewNode(remote.reviews[i])]),
       allowedUsers) # <<>>

\* --------------------------------------------------------------- C23, C26

\* ReviewInfo
ReviewInfos ==
  [reviewId : ReviewRefs, author : Logins, createdAt : CreatedAts,
   isMinimized : BOOLEAN,
   threads : SeqsUpTo([threadId : 1..MaxThreads, isResolved : BOOLEAN], MaxThreads)]

WellFormed(list) == \A i \in DOMAIN list : list[i] \in ReviewInfos

\* The bare record has an author.
Authored(node) == node.author # <<>>

\* C23: groupThreadsByReview, buildReviewList and findReviewsToMinimize
\* return a well-formed result for every input; a thread without comments,
\* a first comment without author or review and a bare review without author
\* only lead to exclusion: the results are those for the input without them.
C23_MalformedRecordsOnlyExcluded ==
  /\ Grouped =>
       /\ WellFormed(grouped)
       /\ grouped = groupThreadsByReview(SelectSeq(threads, Attributed))
  /\ Built =>
       /\ WellFormed(reviews)
       /\ reviews = buildReviewList(SelectSeq(threads, Attributed),
                                    SelectSeq(allReviews, Authored))
  /\ pc = "found" =>
       /\ Range(reviewIds) \subseteq BuiltIds
       /\ reviewIds =
            findReviewsToMinimize(
              buildReviewList(SelectSeq(threads, Attributed),
                              SelectSeq(allReviews, Authored)), allowedUsers)

\* A thread whose first comment has no author comes before a thread that is
\* attached, and the bare list has a record without author; the three
\* functions have returned.
C23_Witness ==
  /\ pc = "found"
  /\ Len(threads) = 2 /\ Len(allReviews) = 1
  /\ threads[1].comments # <<>> /\ threads[1].comments[1].author = <<>>
  /\ Attributed(threads[2])
  /\ allReviews[1].author = <<>>
  /\ Len(reviews) = 1 /\ reviewIds = <<>>

\* The place of the first thread attached to the review.
FirstDiscovery(id) ==
  CHOOSE k \in DOMAIN threads :
     /\ Attributed(threads[k]) /\ ReviewIdOf(threads[k]) = id
     /\ \A j \in 1..(k - 1) :
          ~(Attributed(threads[j]) /\ ReviewIdOf(threads[j]) = id)

\* The place of the thread in the input.
PlaceOf(threadId) == CHOOSE k \in DOMAIN threads : threads[k].id = threadId

\* C26: groupThreadsByReview returns the reviews in the order of their first
\* discovery in the thread sequence, and within a review the summaries in
\* the order of the threads, each with its thread's id and isResolved.
C26_DiscoveryOrder ==
  Grouped =>
    /\ \A k, l \in DOMAIN grouped :
         k < l => FirstDiscovery(grouped[k].reviewId)
                    < FirstDiscovery(grouped[l].reviewId)
    /\ \A k \in DOMAIN grouped :
         LET summaries == grouped[k].threads
         IN /\ \A i, j \in DOMAIN summaries :
                 i < j => PlaceOf(summaries[i].threadId)
                            < PlaceOf(summaries[j].threadId)
            /\ \A i \in DOMAIN summaries :
                 summaries[i].isResolved
                   = threads[PlaceOf(summaries[i].threadId)].isResolved

\* The first thread belongs to review 2 and the second to review 1, with
\* different isResolved: review 2 comes first.
C26_Witness ==
  /\ pc = "build"
  /\ Len(threads) = 2
  /\ \A t \in Range(threads) : Attributed(t)
  /\ ReviewIdOf(threads[1]) = 2 /\ ReviewIdOf(threads[2]) = 1
  /\ threads[1].isResolved # threads[2].isResolved
  /\ Len(grouped) = 2 /\ grouped[1].reviewId = 2

\* --------------------------------------------------------------- C24, C25

\* The reviews of the author of review i created at the author's greatest
\* createdAt.
Latest(i) == {j \in SameAuthor(i) : \A k \in SameAuthor(i) : Time(k) <= Time(j)}

\* The place of a returned identifier in the output.
PlaceReturned(id) == CHOOSE p \in DOMAIN reviewIds : reviewIds[p] = id

\* C24: of the reviews of an author that share the greatest createdAt,
\* findReviewsToMinimize keeps exactly the one that comes first in the
\* input and returns the others when they are not minimized and fully
\* resolved; the returned ones of equal createdAt keep their input order.
C24_FirstOfLatestKept ==
  pc = "found" =>
    \A i \in DOMAIN reviews :
       i \in Latest(i) =>
         /\ (\A j \in Latest(i) : i <= j) => reviews[i].reviewId \notin Returned
         /\ (\E j \in Latest(i) : j < i) =>
              (reviews[i].reviewId \in Returned <=> Eligible(i))
         /\ \A j \in SameAuthor(i) :
              (i < j /\ Time(i) = Time(j) /\ reviews[i].reviewId \in Returned
                 /\ reviews[j].reviewId \in Returned)
                => PlaceReturned(reviews[i].reviewId)
                     < PlaceReturned(reviews[j].reviewId)

\* Three reviews of an author share the greatest createdAt and an older one
\* follows the first of them in the input: the first is kept, the others are
\* returned in input order.
C24_Witness ==
  /\ pc = "found"
  /\ Len(reviews) = 4
  /\ \A i \in DOMAIN reviews : reviews[i].author = reviews[1].author /\ Eligible(i)
  /\ Latest(1) = {1, 3, 4}
  /\ reviewIds = <<3, 4, 2>>

\* The first place of the author in the input.
FirstPlace(author) ==
  CHOOSE i \in DOMAIN reviews :
     reviews[i].author = author /\ \A j \in 1..(i - 1) : reviews[j].author # author

PlaceOfReview(id) == CHOOSE i \in DOMAIN reviews : reviews[i].reviewId = id

\* C25: the output lists the identifiers author by author, the authors in
\* the order of their first appearance in the input, and those of one author
\* by descending createdAt, none of them more recent than a review of the
\* author that is left out as the most recent.
C25_OutputOrder ==
  pc = "found" =>
    /\ \A p, q \in DOMAIN reviewIds :
         p < q =>
           LET i == PlaceOfReview(reviewIds[p])
               j == PlaceOfReview(reviewIds[q])
           IN IF reviews[i].author = reviews[j].author
              THEN Time(i) >= Time(j)
              ELSE FirstPlace(reviews[i].author) < FirstPlace(reviews[j].author)
    /\ \A p \in DOMAIN reviewIds :
         LET i == PlaceOfReview(reviewIds[p])
         IN \E k \in SameAuthor(i) :
               /\ reviews[k].reviewId \notin Returned
               /\ Time(k) >= Time(i)

\* Two authors with two reviews each, the first author's older review last
\* in the input: it is returned first.
C25_Witness ==
  /\ pc = "found"
  /\ Len(reviews) = 4
  /\ reviews[1].author = reviews[4].author
  /\ reviews[2].author = reviews[3].author
  /\ reviews[1].author # reviews[2].author
  /\ Time(1) > Time(4) /\ Time(3) > Time(2)
  /\ reviewIds = <<4, 2>>

\* --------------------------------------------------------------- C27, C28

\* What the loop holds and asks for comes from its own pages alone.
OwnPagesOnly(loop) ==
  /\ loop.all = NodesOf(loop.pages)
  /\ (loop.status = "waiting" /\ loop.pages # <<>>) =>
       /\ loop.cursor = loop.pages[Len(loop.pages)].pageInfo.endCursor
       /\ loop.requests[Len(loop.requests)].cursor = loop.cursor

\* C27: however the requests of the two loops interleave, what each loop has
\* collected is the nodes of its own pages in fetch order, the cursor it
\* sends is the one its own last page returned, and fetchPullRequestData
\* returns the two collections.
C27_LoopsIndependent ==
  /\ OwnPagesOnly(threadsLoop)
  /\ OwnPagesOnly(reviewsLoop)
  /\ pc = "fetched" =>
       /\ threads = NodesOf(threadsLoop.pages)
       /\ allReviews = NodesOf(reviewsLoop.pages)

\* Both loops are waiting for a second page with different cursors, after
\* first pages with different nodes.
C27_Witness ==
  /\ threadsLoop.status = "waiting" /\ reviewsLoop.status = "waiting"
  /\ Len(threadsLoop.pages) = 1 /\ Len(reviewsLoop.pages) = 1
  /\ threadsLoop.cursor = <<"cursor1">> /\ reviewsLoop.cursor = <<"cursor2">>
  /\ threadsLoop.requests[2].cursor = <<"cursor1">>
  /\ reviewsLoop.requests[2].cursor = <<"cursor2">>
  /\ threadsLoop.all # reviewsLoop.all

\* The loop has issued a request for each page it received, and one more
\* exactly while it has received no page without a next page.
RequestsUpToLastPage(loop) ==
  /\ \A k \in 1..(Len(loop.pages) - 1) : loop.pages[k].pageInfo.hasNextPage
  /\ loop.status = "done" =>
       /\ loop.pages # <<>>
       /\ ~loop.pages[Len(loop.pages)].pageInfo.hasNextPage
       /\ Len(loop.requests) = Len(loop.pages)
  /\ loop.status \in {"waiting", "failed"} =>
       /\ \A k \in DOMAIN loop.pages : loop.pages[k].pageInfo.hasNextPage
       /\ Len(loop.requests) = Len(loop.pages) + 1

\* C28: a pagination loop returns as soon as it receives a page with
\* hasNextPage = false, having issued as many requests as it received pages,
\* and fetchPullRequestData returns unless a request faults.
C28_LoopsTerminate ==
  /\ [](RequestsUpToLastPage(threadsLoop) /\ RequestsUpToLastPage(reviewsLoop))
  /\ <>(pc = "fetched" \/ FailedLoops # {})

\* fetchPullRequestData has returned after three requests for threads and
\* one for reviews.
C28_Witness ==
  /\ pc = "fetched"
  /\ Len(threadsLoop.requests) = 3 /\ Len(threadsLoop.pages) = 3
  /\ Len(reviewsLoop.requests) = 1 /\ Len(reviewsLoop.pages) = 1

\* -------------------------------------------------------------------- C29

NoRepeat(list) == \A p, q \in DOMAIN list : list[p] = list[q] => p = q

\* The identifiers of the reviews the run fetched, in the reviews connection
\* or under a thread's first comment.
FetchedIds ==
  {allReviews[k].id : k \in DOMAIN allReviews} \cup
  {ReviewIdOf(t) :
     t \in {u \in Range(threads) :
              u.comments # <<>> /\ u.comments[1].pullRequestReview # <<>>}}

\* C29: every identifier findReviewsToMinimize returns is the reviewId of a
\* review of its input and none is returned twice; in a run no review gets
\* more than one minimize call and every call is for a fetched review.
C29_CallsDistinctAndFetched ==
  /\ Range(reviewIds) \subseteq BuiltIds
  /\ NoRepeat(reviewIds)
  /\ NoRepeat(calls)
  /\ Range(calls) \subseteq FetchedIds

\* The run has called for two reviews, one of them found through a thread.
C29_Witness ==
  /\ pc = "exit" /\ failed = "no"
  /\ Len(calls) = 2
  /\ \E i \in DOMAIN reviews :
       reviews[i].threads # <<>> /\ reviews[i].reviewId \in Range(calls)
  /\ Len(reviews) = 3

\* -------------------------------------------------------------------- C30

\* The review collection of the pull request as it is on GitHub now.
RemoteCollection ==
  buildReviewList(
    [i \in DOMAIN remote.threads |-> ThreadNode(remote.threads[i])],
    [i \in DOMAIN remote.reviews |-> ReviewNode(remote.reviews[i])])

\* Review i of the collection is the one kept for its author: the first, in
\* the collection, of the author's reviews with the greatest createdAt.
KeptOf(collection, i) ==
  \A j \in DOMAIN collection :
     (j # i /\ collection[j].author = collection[i].author) =>
        \/ DateGetTime(collection[j].createdAt) < DateGetTime(collection[i].createdAt)
        \/ /\ DateGetTime(collection[j].createdAt) = DateGetTime(collection[i].createdAt)
           /\ i < j

\* The reviews to minimize: allowed author, not the kept one, all threads
\* resolved.
ToMinimize ==
  LET collection == RemoteCollection
  IN {collection[i].reviewId :
        i \in {j \in DOMAIN collection :
                 /\ Accepted(collection[j].author)
                 /\ ~KeptOf(collection, j)
                 /\ \A t \in Range(collection[j].threads) : t.isResolved}}

\* The run has gone past its fetch.
PastFetch == pc = "minimize" \/ (pc = "exit" /\ failed = "no")

\* A review the run before called for, not minimized, is selected.
FaultedStaysSelected ==
  (runNo > 1 /\ PastFetch) =>
    \A id \in Range(previous.calls) :
       id \notin remote.minimized => id \in Range(reviewIds)

\* Every review to minimize is minimized and no call is in flight.
AllMinimized == ToMinimize \subseteq remote.minimized /\ pc # "minimize"

\* C30: over repeated runs on a pull request that only the minimize calls
\* change, a review whose call faulted is selected by the next run that
\* fetches; when runs fetch again and again and a call issued again and
\* again for a review succeeds in the end, every review to minimize is
\* minimized in the end, and from then on no call is issued.
C30_EventuallyAllMinimized ==
  /\ []FaultedStaysSelected
  /\ []<>PastFetch => <>[]AllMinimized

\* The second run calls again for a review whose call faulted in the first
\* run, and the call has succeeded.
C30_Witness ==
  /\ runNo = 2 /\ pc = "exit" /\ failed = "no"
  /\ Len(previous.calls) = 2
  /\ <<"failed-count", 1>> \in previous.outputs
  /\ Len(calls) = 1 /\ calls[1] \in Range(previous.calls)
  /\ <<"minimized-count", 1>> \in outputs
  /\ ToMinimize # {} /\ ToMinimize \subseteq remote.minimized

=============================================================================
